---- MODULE Spec2Model ----
(***************************************************************************)
(* fell: bulk git operations over a fleet of repositories.                 *)
(*                                                                         *)
(* The model covers the git backend of src/src/git.js (on a small commit   *)
(* graph per repository), the sync handler (src/src/cmd/branch.ts:34-39)   *)
(* and the commit handler (src/unnamed/part_000:12-19), including the      *)
(* Promise.all fan-out the two handlers await.                             *)
(***************************************************************************)
EXTENDS Naturals, Integers, Sequences, FiniteSets, TLC

\* -------------------------------------------------------------------------
\* Bounds
\* -------------------------------------------------------------------------

\* largest number of pending working-tree files a repository starts with
MaxPending == 1

\* -------------------------------------------------------------------------
\* Values
\* -------------------------------------------------------------------------

NoSha == "none"

Undefined == "undefined"

Empty == "<empty>"

BranchNames == {"master", "feature"}

\* the commit messages an invocation may carry
Messages == {"wip", "fix"}

\* the configured repositories, in catalog order
Catalog == <<"A", "B", "C">>

RepoNames == {Catalog[k] : k \in 1..Len(Catalog)}

\* directory each repository lives under (what a scope selects on)
Dir(r) == IF r = "C" THEN "es" ELSE "en"

Scopes == {"none", "en"}

Excludes == {{}, {"A"}, {"B"}}

\* commit objects that exist before the run: c0 is the common root,
\* c1 a local commit on top of c0, u1 an upstream commit on top of c0
Commit(sha, parents, message) == [sha |-> sha, parents |-> parents, message |-> message]

C0 == Commit("c0", <<>>, "root")

C1 == Commit("c1", <<"c0">>, "local")

U1 == Commit("u1", <<"c0">>, "upstream")

\* objects the remote can serve
RemoteObjects == {C0, U1}

\* -------------------------------------------------------------------------
\* Repository state
\* -------------------------------------------------------------------------

Branches(master, feature) == [b \in BranchNames |-> IF b = "master" THEN master ELSE feature]

RepoState(cur, master, feature, upstream, odb, unstaged) ==
    [cur |-> cur, branches |-> Branches(master, feature),
     tracking |-> IF master = NoSha THEN NoSha ELSE "c0",
     upstream |-> upstream, upstreamFeature |-> NoSha, odb |-> odb,
     unstaged |-> unstaged, staged |-> 0]

\* the repository shapes a run may start from (working tree aside)
Fixtures(n) ==
    { RepoState("master", "c0", NoSha, "c0", {C0}, n),          \* up to date
      RepoState("master", "c0", NoSha, "u1", {C0}, n),          \* behind upstream
      RepoState("master", "c1", NoSha, "c0", {C0, C1}, n),      \* ahead of upstream
      RepoState("master", "c1", NoSha, "u1", {C0, C1}, n),      \* diverged from upstream
      RepoState("feature", "c0", "c1", "c0", {C0, C1}, n),      \* HEAD ahead of master
      RepoState("feature", "u1", "c1", "u1", {C0, C1, U1}, n),  \* HEAD diverged from master
      RepoState("master", NoSha, NoSha, "c0", {}, n) }          \* no commits yet

HeadSha(rp) == rp.branches[rp.cur]

Parents(odb, sha) ==
    LET c == CHOOSE c \in odb : c.sha = sha IN {c.parents[k] : k \in 1..Len(c.parents)}

\* the shas a revision walk that starts at sha visits (the start included)
RECURSIVE history(_, _)
history(odb, sha) ==
    {sha} \cup UNION {history(odb, p) : p \in Parents(odb, sha)}


\* -------------------------------------------------------------------------
\* git.js: the per-repository backend
\* -------------------------------------------------------------------------

\* number of entries repo.getStatus() reports
getStatus(rp) == rp.unstaged + rp.staged

\* variant: a repository with one pending file still counts as clean
isStatusCleanOffByOne(rp) == getStatus(rp) <= 1

isStatusClean(rp) == getStatus(rp) = 0

\* shorthand of the reference HEAD points at; reading it fails on a
\* repository that has no commit yet
getCurrentBranch(rp) ==
    IF HeadSha(rp) = NoSha THEN [err |-> "UnbornHead", value |-> Empty]
    ELSE [err |-> Empty, value |-> rp.cur]

\* repo.fetchAll: the remote's objects arrive and origin/master follows
\* the remote's master
fetchAll(rp) ==
    [rp EXCEPT !.odb = rp.odb \cup {c \in RemoteObjects : c.sha \in history(RemoteObjects, rp.upstream)},
               !.tracking = rp.upstream]

MergeBase(odb, a, b) ==
    LET common == history(odb, a) \cap history(odb, b)
    IN  IF common = {} THEN NoSha
        ELSE CHOOSE x \in common : \A y \in common : y \in history(odb, x)

MergeSha(to, from) == "m_" \o to \o "_" \o from

\* repo.mergeBranches(to, 'origin/master', signature, preference) as sync
\* calls it: nothing to do when origin/master is already in the history of
\* `to`; a fast-forward when `to` is in the history of origin/master; and,
\* when neither holds, a merge commit unless the preference is
\* FASTFORWARD_ONLY, under which the branch is returned as it is
mergeBranches(rp, to, preference) ==
    LET toSha   == rp.branches[to]
        fromSha == rp.tracking
        base    == MergeBase(rp.odb, toSha, fromSha)
    IN  IF toSha = NoSha \/ fromSha = NoSha \/ base = NoSha
          THEN [err |-> "MergeFailed", rp |-> rp, value |-> Empty]
        ELSE IF base = fromSha
          THEN [err |-> Empty, rp |-> rp, value |-> toSha]
        ELSE IF base = toSha
          THEN [err |-> Empty, rp |-> [rp EXCEPT !.branches[to] = fromSha], value |-> fromSha]
        ELSE IF preference # "FASTFORWARD_ONLY"
          THEN [err |-> Empty,
                rp |-> [rp EXCEPT !.odb = rp.odb \cup {Commit(MergeSha(toSha, fromSha), <<toSha, fromSha>>, "merge")},
                                  !.branches[to] = MergeSha(toSha, fromSha)],
                value |-> MergeSha(toSha, fromSha)]
        ELSE [err |-> Empty, rp |-> rp, value |-> toSha]

\* variant: sync merges with no preference, so that it may create a merge
syncMergePreferenceNone == "NONE"

\* the preference sync passes to mergeBranches
syncMergePreference == "FASTFORWARD_ONLY"

\* variant: the index is filled in memory but not written before HEAD is
\* resolved
stageAllNotWritten(rp) == rp

\* index.addAll(); index.write(); index.writeTree(): every working-tree
\* change is staged in the index on disk
stageAll(rp) == [rp EXCEPT !.staged = rp.staged + rp.unstaged, !.unstaged = 0]

\* NodeGit.Reference.nameToId(repo, 'HEAD') and repo.getCommit(head)
resolveHead(rp) ==
    IF HeadSha(rp) = NoSha THEN [err |-> "UnbornHead", value |-> Empty]
    ELSE [err |-> Empty, value |-> HeadSha(rp)]

\* id of the commit commitAll creates in repository r
NewSha(r) == "n_" \o r

\* repo.createCommit('HEAD', signature, signature, message, oid, [parent])
createCommit(rp, r, message, parent) ==
    [rp EXCEPT !.odb = rp.odb \cup {Commit(NewSha(r), <<parent>>, message)},
               !.branches[rp.cur] = NewSha(r),
               !.staged = 0]

\* commitAll run from start to end on one repository
commitAll(rp, r, message) ==
    LET s == stageAll(rp)
        h == resolveHead(s)
    IN  IF h.err # Empty THEN [err |-> h.err, rp |-> s, value |-> Empty]
        ELSE [err |-> Empty, rp |-> createCommit(s, r, message, h.value), value |-> NewSha(r)]

\* repo.getBranch(name): rejects when there is no such branch
getBranch(rp, name) ==
    IF rp.branches[name] = NoSha THEN [err |-> "BranchNotFound", value |-> Empty]
    ELSE [err |-> Empty, value |-> name]

\* variant: the rejection of getBranch is not caught
hasBranchNoCatch(rp, branchName) ==
    IF getBranch(rp, branchName).err # Empty
      THEN [err |-> getBranch(rp, branchName).err, value |-> FALSE]
      ELSE [err |-> Empty, value |-> TRUE]

\* hasBranch: try { await repo.getBranch(...); return true } catch { return false }
hasBranch(rp, branchName) ==
    IF getBranch(rp, branchName).err # Empty
      THEN [err |-> Empty, value |-> FALSE]
      ELSE [err |-> Empty, value |-> TRUE]

\* NodeGit.Branch.delete(ref): rejects on the branch HEAD points at,
\* resolves with 0 once the branch is deleted
branchDelete(rp, ref) ==
    IF ref = rp.cur THEN [err |-> "CannotDeleteCurrentHead", res |-> -1, rp |-> rp]
    ELSE [err |-> Empty, res |-> 0, rp |-> [rp EXCEPT !.branches[ref] = NoSha]]

\* deleteBranch: neither await is guarded, so a rejection ends the call
deleteBranch(rp, branch) ==
    LET ref == getBranch(rp, branch)
    IN  IF ref.err # Empty THEN [err |-> ref.err, value |-> FALSE, rp |-> rp]
        ELSE LET d == branchDelete(rp, ref.value)
             IN  IF d.err # Empty THEN [err |-> d.err, value |-> FALSE, rp |-> rp]
                 ELSE [err |-> Empty, value |-> (d.res = 0), rp |-> d.rp]

\* the value of an optional argument: <<>> when omitted, <<v>> when given
Default(arg, d) == IF arg = <<>> THEN d ELSE arg[1]

\* the remotes a repository is configured with
RemoteNames == {"origin"}

\* the branch heads of origin
RemoteHead(rp, b) == IF b = "master" THEN rp.upstream ELSE rp.upstreamFeature

SetRemoteHead(rp, b, sha) ==
    IF b = "master" THEN [rp EXCEPT !.upstream = sha] ELSE [rp EXCEPT !.upstreamFeature = sha]

\* variant: the refspec always asks for a forced update
pushRefspecAlwaysForced(branch, force) ==
    <<"+", "refs/heads/", branch, ":", "refs/heads/", branch>>

\* `${force ? '+' : ''}refs/heads/${branch}:refs/heads/${branch}`
pushRefspec(branch, force) ==
    (IF force THEN <<"+">> ELSE <<>>) \o <<"refs/heads/", branch, ":", "refs/heads/", branch>>

\* remote.push([refspec]): a leading + forces the update; without it the
\* remote only takes a new branch or a fast-forward
remotePush(rp, refspec) ==
    LET forced == refspec[1] = "+"
        body   == IF forced THEN Tail(refspec) ELSE refspec
        src    == body[2]
        dst    == body[5]
        sha    == rp.branches[src]
        old    == RemoteHead(rp, dst)
    IN  IF sha = NoSha THEN [err |-> "SrcRefNotFound", rp |-> rp]
        ELSE IF old # NoSha /\ ~forced /\ old \notin history(rp.odb, sha)
          THEN [err |-> "PushRejected", rp |-> rp]
        ELSE [err |-> Empty, rp |-> SetRemoteHead(rp, dst, sha)]

\* push(repoPath, branch, force = false, remoteName = 'origin')
push(rp, branch, forceArg, remoteArg) ==
    LET force      == Default(forceArg, FALSE)
        remoteName == Default(remoteArg, "origin")
        refspec    == pushRefspec(branch, force)
    IN  IF remoteName \notin RemoteNames
          THEN [err |-> "NoRemote", rp |-> rp, request |-> [remote |-> remoteName, refspecs |-> <<>>]]
        ELSE [err |-> remotePush(rp, refspec).err, rp |-> remotePush(rp, refspec).rp,
              request |-> [remote |-> remoteName, refspecs |-> <<refspec>>]]

\* repo.getHeadCommit()
getHeadCommit(rp) ==
    IF HeadSha(rp) = NoSha THEN [err |-> "UnbornHead", value |-> Empty]
    ELSE [err |-> Empty, value |-> HeadSha(rp)]

\* variant: the branch is created with force, which moves an existing one
createBranchForceOn == TRUE

\* the force argument checkoutNewBranch passes to repo.createBranch
createBranchForce == FALSE

\* repo.createBranch(name, commit, force): refused without force when a
\* branch of that name exists
createBranch(rp, name, sha, force) ==
    IF rp.branches[name] # NoSha /\ ~force THEN [err |-> "BranchExists", rp |-> rp]
    ELSE [err |-> Empty, rp |-> [rp EXCEPT !.branches[name] = sha]]

\* repo.checkoutBranch(name)
checkoutBranch(rp, name) ==
    IF rp.branches[name] = NoSha THEN [err |-> "BranchNotFound", rp |-> rp]
    ELSE [err |-> Empty, rp |-> [rp EXCEPT !.cur = name]]

\* checkoutNewBranch: each await that rejects ends the call
checkoutNewBranch(rp, name) ==
    LET commit == getHeadCommit(rp)
    IN  IF commit.err # Empty THEN [err |-> commit.err, rp |-> rp]
        ELSE LET created == createBranch(rp, name, commit.value, createBranchForce)
             IN  IF created.err # Empty THEN created
                 ELSE checkoutBranch(created.rp, name)

\* isAheadOfMaster, as written: the history walked is masterCommit's
isAheadOfMaster(rp) ==
    LET headCommit   == HeadSha(rp)
        masterCommit == rp.branches["master"]
    IN  IF headCommit = NoSha \/ masterCommit = NoSha
          THEN [err |-> "NoCommit", value |-> FALSE]
        ELSE IF headCommit = masterCommit
          THEN [err |-> Empty, value |-> FALSE]
        ELSE [err |-> Empty, value |-> masterCommit \in history(rp.odb, masterCommit)]

\* -------------------------------------------------------------------------
\* repos: catalog filtering and status classification
\* -------------------------------------------------------------------------

getRepos(exclude, scope) ==
    SelectSeq(Catalog, LAMBDA r : r \notin exclude /\ (scope = "none" \/ Dir(r) = scope))

getStatusGroups(disk, rs) ==
    [clean |-> SelectSeq(rs, LAMBDA r : isStatusClean(disk[r])),
     dirty |-> SelectSeq(rs, LAMBDA r : ~isStatusClean(disk[r]))]

\* the branch map so far with repository r filed under branch b: a new
\* key goes last, as in a Map
AddToBranchMap(m, b, r) ==
    IF \E k \in 1..Len(m) : m[k].branch = b
      THEN [k \in 1..Len(m) |-> IF m[k].branch = b THEN [m[k] EXCEPT !.repos = Append(@, r)] ELSE m[k]]
      ELSE Append(m, [branch |-> b, repos |-> <<r>>])

RECURSIVE BranchMapFrom(_, _, _)
BranchMapFrom(disk, rs, m) ==
    IF rs = <<>> THEN m
    ELSE BranchMapFrom(disk, Tail(rs), AddToBranchMap(m, getCurrentBranch(disk[Head(rs)]).value, Head(rs)))

\* every repository filed under its current branch; the call fails when the
\* current branch of a repository cannot be read
getBranchMap(disk, rs) ==
    IF \E k \in 1..Len(rs) : getCurrentBranch(disk[rs[k]]).err # Empty
      THEN [err |-> getCurrentBranch(disk[rs[CHOOSE k \in 1..Len(rs) :
                        /\ getCurrentBranch(disk[rs[k]]).err # Empty
                        /\ \A j \in 1..(k - 1) : getCurrentBranch(disk[rs[j]]).err = Empty]]).err,
            value |-> <<>>]
      ELSE [err |-> Empty, value |-> BranchMapFrom(disk, rs, <<>>)]

\* path of a repository as the report shows it
relPath(r) == Dir(r) \o "/" \o r

\* -------------------------------------------------------------------------
\* The branch report
\* -------------------------------------------------------------------------

\* variant: the repositories of every branch are listed, master included
listsReposAlways(branch) == TRUE

\* if (branch !== `master`)
listsRepos(branch) == branch # "master"

\* log(`${branchRepos.length} repos on branch <${branch}>`)
branchCountLine(branch, branchRepos) ==
    [text |-> "repos on branch", count |-> Len(branchRepos), branch |-> branch]

\* log(`  ${relPath(repo)}`)
branchRepoLine(r) == [text |-> "repo", path |-> relPath(r)]

\* the lines of one entry of the branch map
branchEntryLines(e) ==
    <<branchCountLine(e.branch, e.repos)>>
        \o (IF listsRepos(e.branch) THEN [k \in 1..Len(e.repos) |-> branchRepoLine(e.repos[k])] ELSE <<>>)

\* [...branchMap].forEach(...)
RECURSIVE branchReport(_)
branchReport(m) ==
    IF m = <<>> THEN <<>> ELSE branchEntryLines(Head(m)) \o branchReport(Tail(m))

\* -------------------------------------------------------------------------
\* Promise.all and Array.prototype.map as the handlers use them
\* -------------------------------------------------------------------------

\* variant: sync is run on every repository, whatever its status
syncTargetsAll(g) == g.clean \o g.dirty

\* const { clean } = await getStatusGroups(repos)
syncTargets(g) == g.clean

\* const { dirty } = await getStatusGroups(repos)
commitTargets(g) == g.dirty

\* variant: the repositories are synced one after the other, so that only
\* the first call has been made when it fails
syncCallsSequential(clean) ==
    [i \in 1..(IF Len(clean) = 0 THEN 0 ELSE 1) |->
        [fn |-> "sync", repo |-> clean[i], message |-> Undefined]]

\* variant: every repository is synced a second time
syncCallsTwice(clean) ==
    [i \in 1..(2 * Len(clean)) |->
        [fn |-> "sync", repo |-> clean[((i - 1) % Len(clean)) + 1], message |-> Undefined]]

\* clean.map(git.sync): one call per element, in order
syncCalls(clean) ==
    [i \in 1..Len(clean) |-> [fn |-> "sync", repo |-> clean[i], message |-> Undefined]]

\* variant: dirty.map(git.commitAll), which loses the message
commitCallsPointFree(dirty, message) ==
    [i \in 1..Len(dirty) |-> [fn |-> "commitAll", repo |-> dirty[i], message |-> Undefined]]

\* dirty.map(repo => git.commitAll(repo, message))
commitCalls(dirty, message) ==
    [i \in 1..Len(dirty) |-> [fn |-> "commitAll", repo |-> dirty[i], message |-> message]]

\* the async calls map started: one running call per invocation
startTasks(cs, pc0) ==
    [i \in 1..Len(cs) |-> [repo |-> cs[i].repo, pc |-> pc0, loc |-> Empty, err |-> Empty]]

\* variant: the promise only fulfils when an input promise does, so that it
\* stays pending over no input
PromiseAllCountdownOnly(n) ==
    [state |-> "pending",
     values |-> [i \in 1..n |-> Empty], remaining |-> n, reason |-> Empty]

PromiseAll(n) ==
    [state |-> IF n = 0 THEN "fulfilled" ELSE "pending",
     values |-> [i \in 1..n |-> Empty], remaining |-> n, reason |-> Empty]

\* variant: the values are collected in the order the promises fulfil
resolveElementInCompletionOrder(p, i, v) ==
    [p EXCEPT !.values[Len(p.values) - p.remaining + 1] = v,
              !.remaining = p.remaining - 1,
              !.state = IF p.state = "pending" /\ p.remaining = 1 THEN "fulfilled" ELSE p.state]

\* the i-th input promise fulfils with v
resolveElement(p, i, v) ==
    [p EXCEPT !.values[i] = v,
              !.remaining = p.remaining - 1,
              !.state = IF p.state = "pending" /\ p.remaining = 1 THEN "fulfilled" ELSE p.state]

\* an input promise rejects with e: only the first rejection counts
rejectElement(p, e) ==
    IF p.state = "pending" THEN [p EXCEPT !.state = "rejected", !.reason = e] ELSE p

syncSummary(clean) == [count |-> Len(clean), text |-> "repos synced."]

commitSummary(dirty, message) ==
    [count |-> Len(dirty), text |-> "repos added new commit", message |-> message]


\* -------------------------------------------------------------------------
\* State
\* -------------------------------------------------------------------------

VARIABLES
    repo,    \* the repositories on disk
    repo0,   \* the repositories as they were when the run began
    hpc,     \* where the handler is: idle, awaiting, returned, thrown
    verb,    \* the verb being handled
    argv,    \* its arguments
    repos,   \* handler local: the filtered repository set
    groups,  \* handler local: the status groups
    calls,   \* the backend invocations made, in order
    task,    \* the calls in flight, one per invocation
    pall,    \* the promise Promise.all returned
    herr,    \* what the handler threw
    out,     \* the lines written to the console
    settled, \* the calls that settled, in the order they did
    api      \* a direct call of a git.js function and what it returned

vars == <<repo, repo0, hpc, verb, argv, repos, groups, calls, task, pall, herr, out, settled, api>>

NoCall == [fn |-> "none", repo |-> Empty, ret |-> Empty]

InitialRepoStates == UNION {Fixtures(n) : n \in 0..MaxPending}

Init ==
    /\ repo \in [RepoNames -> InitialRepoStates]
    /\ repo0 = repo
    /\ hpc = "idle"
    /\ verb = "none"
    /\ argv = [exclude |-> {}, scope |-> "none", message |-> Undefined]
    /\ repos = <<>>
    /\ groups = [clean |-> <<>>, dirty |-> <<>>]
    /\ calls = <<>>
    /\ task = <<>>
    /\ pall = PromiseAll(0)
    /\ herr = Empty
    /\ out = <<>>
    /\ settled = <<>>
    /\ api = NoCall

\* -------------------------------------------------------------------------
\* The handlers
\* -------------------------------------------------------------------------

\* the handler's code after `await Promise.all(...)`: the summary line when
\* the promise fulfilled, the rejection rethrown when it rejected
AfterAwait(p, line) ==
    /\ hpc' = IF p.state = "pending" THEN "awaiting"
              ELSE IF p.state = "fulfilled" THEN "returned" ELSE "thrown"
    /\ out' = IF p.state = "fulfilled" THEN Append(out, line) ELSE out
    /\ herr' = IF p.state = "rejected" THEN p.reason ELSE herr

\* sync handler, up to its await
SyncHandler(exclude, scope) ==
    /\ hpc = "idle" /\ api.fn = "none"
    /\ LET rs == getRepos(exclude, scope)
           g  == getStatusGroups(repo, rs)
           cs == syncCalls(syncTargets(g))
           p  == PromiseAll(Len(cs))
       IN  /\ verb' = "sync"
           /\ argv' = [exclude |-> exclude, scope |-> scope, message |-> Undefined]
           /\ repos' = rs
           /\ groups' = g
           /\ calls' = cs
           /\ task' = startTasks(cs, "getCurrentBranch")
           /\ pall' = p
           /\ AfterAwait(p, syncSummary(syncTargets(g)))
    /\ UNCHANGED <<repo, repo0, settled, api>>

\* commit handler, up to its await
CommitHandler(exclude, scope, message) ==
    /\ hpc = "idle" /\ api.fn = "none"
    /\ LET rs == getRepos(exclude, scope)
           g  == getStatusGroups(repo, rs)
           cs == commitCalls(commitTargets(g), message)
           p  == PromiseAll(Len(cs))
       IN  /\ verb' = "commit"
           /\ argv' = [exclude |-> exclude, scope |-> scope, message |-> message]
           /\ repos' = rs
           /\ groups' = g
           /\ calls' = cs
           /\ task' = startTasks(cs, "stageAll")
           /\ pall' = p
           /\ AfterAwait(p, commitSummary(commitTargets(g), message))
    /\ UNCHANGED <<repo, repo0, settled, api>>

\* branch handler: it has no step after its two awaits that another call
\* could interleave with
BranchHandler(exclude) ==
    /\ hpc = "idle" /\ api.fn = "none"
    /\ LET rs == getRepos(exclude, "none")
           bm == getBranchMap(repo, rs)
       IN  /\ verb' = "branch"
           /\ argv' = [exclude |-> exclude, scope |-> "none", message |-> Undefined]
           /\ repos' = rs
           /\ hpc' = IF bm.err # Empty THEN "thrown" ELSE "returned"
           /\ herr' = bm.err
           /\ out' = IF bm.err # Empty THEN out ELSE out \o branchReport(bm.value)
    /\ UNCHANGED <<repo, repo0, groups, calls, task, pall, settled, api>>

Summary ==
    IF verb = "sync" THEN syncSummary(syncTargets(groups))
    ELSE commitSummary(commitTargets(groups), argv.message)

\* an input promise of Promise.all settled: the handler resumes if this
\* settles the promise it is awaiting
Settle(p) ==
    /\ pall' = p
    /\ IF hpc = "awaiting" THEN AfterAwait(p, Summary) ELSE UNCHANGED <<hpc, out, herr>>

Running(i, pc) == i \in 1..Len(task) /\ task[i].pc = pc

Goto(i, pc, loc) ==
    /\ task' = [task EXCEPT ![i].pc = pc, ![i].loc = loc]
    /\ UNCHANGED <<pall, hpc, out, herr, settled>>

Fail(i, e) ==
    /\ task' = [task EXCEPT ![i].pc = "failed", ![i].err = e]
    /\ settled' = Append(settled, i)
    /\ Settle(rejectElement(pall, e))

Succeed(i, v) ==
    /\ task' = [task EXCEPT ![i].pc = "done"]
    /\ settled' = Append(settled, i)
    /\ Settle(resolveElement(pall, i, v))

Frame == UNCHANGED <<repo0, verb, argv, repos, groups, calls, api>>

\* sync: const branch = await getCurrentBranch(repoPath)
SyncGetCurrentBranch(i) ==
    /\ Running(i, "getCurrentBranch")
    /\ LET b == getCurrentBranch(repo[task[i].repo])
       IN  IF b.err # Empty THEN Fail(i, b.err) ELSE Goto(i, "fetchAll", b.value)
    /\ UNCHANGED repo
    /\ Frame

\* sync: await repo.fetchAll(...), which the network may fail
SyncFetchAll(i) ==
    /\ Running(i, "fetchAll")
    /\ \E ok \in BOOLEAN :
          IF ok
            THEN /\ repo' = [repo EXCEPT ![task[i].repo] = fetchAll(@)]
                 /\ Goto(i, "mergeBranches", task[i].loc)
            ELSE /\ UNCHANGED repo
                 /\ Fail(i, "FetchFailed")
    /\ Frame

\* sync: await repo.mergeBranches(branch, 'origin/master', ..., FASTFORWARD_ONLY)
SyncMergeBranches(i) ==
    /\ Running(i, "mergeBranches")
    /\ LET m == mergeBranches(repo[task[i].repo], task[i].loc, syncMergePreference)
       IN  /\ repo' = [repo EXCEPT ![task[i].repo] = m.rp]
           /\ IF m.err # Empty THEN Fail(i, m.err) ELSE Succeed(i, Undefined)
    /\ Frame

\* commitAll: refreshIndex, addAll, write, writeTree
CommitStageAll(i) ==
    /\ Running(i, "stageAll")
    /\ repo' = [repo EXCEPT ![task[i].repo] = stageAll(@)]
    /\ Goto(i, "resolveHead", Empty)
    /\ Frame

\* commitAll: nameToId(repo, 'HEAD') and getCommit(head)
CommitResolveHead(i) ==
    /\ Running(i, "resolveHead")
    /\ LET h == resolveHead(repo[task[i].repo])
       IN  IF h.err # Empty THEN Fail(i, h.err) ELSE Goto(i, "createCommit", h.value)
    /\ UNCHANGED repo
    /\ Frame

\* commitAll: return repo.createCommit('HEAD', ..., message, oid, [parent])
CommitCreateCommit(i) ==
    /\ Running(i, "createCommit")
    /\ repo' = [repo EXCEPT ![task[i].repo] = createCommit(@, task[i].repo, calls[i].message, task[i].loc)]
    /\ Succeed(i, NewSha(task[i].repo))
    /\ Frame

\* a direct call of isAheadOfMaster on one repository
CallIsAheadOfMaster(r) ==
    /\ hpc = "idle" /\ api.fn = "none"
    /\ api' = [fn |-> "isAheadOfMaster", repo |-> r, ret |-> isAheadOfMaster(repo[r])]
    /\ UNCHANGED <<repo, repo0, hpc, verb, argv, repos, groups, calls, task, pall, herr, out, settled>>

\* a direct call of commitAll on one repository
CallCommitAll(r, message) ==
    /\ hpc = "idle" /\ api.fn = "none"
    /\ LET c == commitAll(repo[r], r, message)
       IN  /\ repo' = [repo EXCEPT ![r] = c.rp]
           /\ api' = [fn |-> "commitAll", repo |-> r, ret |-> [err |-> c.err, value |-> c.value]]
    /\ UNCHANGED <<repo0, hpc, verb, argv, repos, groups, calls, task, pall, herr, out, settled>>

\* a direct call of checkoutNewBranch on one repository
CallCheckoutNewBranch(r, name) ==
    /\ hpc = "idle" /\ api.fn = "none"
    /\ LET c == checkoutNewBranch(repo[r], name)
       IN  /\ repo' = [repo EXCEPT ![r] = c.rp]
           /\ api' = [fn |-> "checkoutNewBranch", repo |-> r, args |-> <<name>>,
                      ret |-> [err |-> c.err, value |-> Undefined]]
    /\ UNCHANGED <<repo0, hpc, verb, argv, repos, groups, calls, task, pall, herr, out, settled>>

\* the ways the optional arguments of push may be passed
ForceArgs == {<<>>, <<TRUE>>, <<FALSE>>}

RemoteArgs == {<<>>, <<"origin">>, <<"backup">>}

\* a direct call of push on one repository
CallPush(r, branch, forceArg, remoteArg) ==
    /\ hpc = "idle" /\ api.fn = "none"
    /\ LET c == push(repo[r], branch, forceArg, remoteArg)
       IN  /\ repo' = [repo EXCEPT ![r] = c.rp]
           /\ api' = [fn |-> "push", repo |-> r,
                      args |-> [branch |-> branch, force |-> forceArg, remote |-> remoteArg],
                      ret |-> [err |-> c.err, value |-> Undefined, request |-> c.request]]
    /\ UNCHANGED <<repo0, hpc, verb, argv, repos, groups, calls, task, pall, herr, out, settled>>

\* a direct call of hasBranch on one repository
CallHasBranch(r, name) ==
    /\ hpc = "idle" /\ api.fn = "none"
    /\ api' = [fn |-> "hasBranch", repo |-> r, args |-> <<name>>, ret |-> hasBranch(repo[r], name)]
    /\ UNCHANGED <<repo, repo0, hpc, verb, argv, repos, groups, calls, task, pall, herr, out, settled>>

\* a direct call of deleteBranch on one repository
CallDeleteBranch(r, name) ==
    /\ hpc = "idle" /\ api.fn = "none"
    /\ LET d == deleteBranch(repo[r], name)
       IN  /\ repo' = [repo EXCEPT ![r] = d.rp]
           /\ api' = [fn |-> "deleteBranch", repo |-> r, args |-> <<name>>,
                      ret |-> [err |-> d.err, value |-> d.value]]
    /\ UNCHANGED <<repo0, hpc, verb, argv, repos, groups, calls, task, pall, herr, out, settled>>

\* one step of the i-th call in flight
TaskStep(i) ==
    \/ SyncGetCurrentBranch(i)
    \/ SyncFetchAll(i)
    \/ SyncMergeBranches(i)
    \/ CommitStageAll(i)
    \/ CommitResolveHead(i)
    \/ CommitCreateCommit(i)

TaskIds == 1..Len(Catalog)

Next ==
    \/ \E e \in Excludes, s \in Scopes : SyncHandler(e, s)
    \/ \E e \in Excludes, s \in Scopes, m \in Messages : CommitHandler(e, s, m)
    \/ \E e \in SUBSET RepoNames : BranchHandler(e)
    \/ \E i \in TaskIds : SyncGetCurrentBranch(i)
    \/ \E i \in TaskIds : SyncFetchAll(i)
    \/ \E i \in TaskIds : SyncMergeBranches(i)
    \/ \E i \in TaskIds : CommitStageAll(i)
    \/ \E i \in TaskIds : CommitResolveHead(i)
    \/ \E i \in TaskIds : CommitCreateCommit(i)
    \/ \E r \in RepoNames : CallIsAheadOfMaster(r)
    \/ \E r \in RepoNames, m \in Messages : CallCommitAll(r, m)
    \/ \E r \in RepoNames, b \in BranchNames : CallCheckoutNewBranch(r, b)
    \/ \E r \in RepoNames, b \in BranchNames : CallHasBranch(r, b)
    \/ \E r \in RepoNames, b \in BranchNames : CallDeleteBranch(r, b)
    \/ \E r \in RepoNames, b \in BranchNames, f \in ForceArgs, rm \in RemoteArgs : CallPush(r, b, f, rm)

Spec == Init /\ [][Next]_vars


\* -------------------------------------------------------------------------
\* Properties
\* -------------------------------------------------------------------------

Range(q) == {q[k] : k \in 1..Len(q)}

\* the filtered set of the invocation, and its members that had no (some)
\* pending file when the handler classified them
Filtered == getRepos(argv.exclude, argv.scope)

CleanAtStart == {r \in Range(Filtered) : getStatus(repo0[r]) = 0}

DirtyAtStart == {r \in Range(Filtered) : getStatus(repo0[r]) > 0}

Targeted == IF verb = "sync" THEN CleanAtStart ELSE DirtyAtStart

CallsOf(fn, r) == {k \in 1..Len(calls) : calls[k].fn = fn /\ calls[k].repo = r}

IsSettled(i) == task[i].pc \in {"done", "failed"}

AllSettled == \A i \in 1..Len(task) : IsSettled(i)

SomeFailed == \E i \in 1..Len(task) : task[i].pc = "failed"

\* C1: in a batch of the sync or commit handler, once the operation of one
\* repository has failed, every targeted repository still has its operation
\* invoked, and each such operation has either settled (with its own success
\* or failure) or can take its next step: a failure never stops a sibling.
C1_SiblingsRunDespiteFailure ==
    (hpc # "idle" /\ SomeFailed) =>
        \A r \in Targeted :
            \E j \in 1..Len(task) :
                /\ calls[j].repo = r
                /\ task[j].repo = r
                /\ (IsSettled(j) \/ ENABLED TaskStep(j))

\* a batch of two or more in which the first call to settle failed and
\* another call went on to succeed
C1_Witness ==
    /\ Len(task) >= 2
    /\ Len(settled) = Len(task)
    /\ task[settled[1]].pc = "failed"
    /\ \E j \in 1..Len(task) : task[j].pc = "done"

\* C2 (as claimed): the batch step never throws; the handler always gets
\* past its await, with the promise fulfilled with one outcome per targeted
\* repository.
C2_BatchNeverThrows ==
    /\ hpc # "thrown"
    /\ pall.state # "rejected"
    /\ (AllSettled /\ hpc # "idle") =>
           (hpc = "returned" /\ Len(pall.values) = Cardinality(Targeted))

\* C3: the sync verb calls sync() exactly once on every repository of the
\* filtered set that had no pending file when classified, never on any
\* other repository, and makes no other backend call.
C3_SyncOncePerCleanRepo ==
    (verb = "sync" /\ hpc # "idle") =>
        /\ \A r \in RepoNames :
              Cardinality(CallsOf("sync", r)) = IF r \in CleanAtStart THEN 1 ELSE 0
        /\ \A k \in 1..Len(calls) : calls[k].fn = "sync"
        /\ Len(task) = Len(calls)

\* a finished sync over a filtered set with a clean and a dirty repository
C3_Witness ==
    /\ verb = "sync"
    /\ hpc = "returned"
    /\ CleanAtStart # {}
    /\ DirtyAtStart # {}

\* the catalog of the end-to-end scenario: A clean, B and C dirty (both with
\* history), nothing excluded, message "wip"
CommitScenario ==
    /\ verb = "commit"
    /\ argv.exclude = {} /\ argv.scope = "none" /\ argv.message = "wip"
    /\ getStatus(repo0["A"]) = 0
    /\ getStatus(repo0["B"]) > 0 /\ HeadSha(repo0["B"]) # NoSha
    /\ getStatus(repo0["C"]) > 0 /\ HeadSha(repo0["C"]) # NoSha

\* C4: the commit verb calls commitAll(repo, message) exactly once on every
\* repository of the filtered set that was dirty when classified and on no
\* clean one, with the invocation's message, which is the message of the
\* commit created; in the scenario {A clean, B dirty, C dirty} with message
\* "wip" the handler does not throw and the outcome sequence is the two new
\* commits of B and C, in that order.
C4_CommitOncePerDirtyRepo ==
    (verb = "commit" /\ hpc # "idle") =>
        /\ \A r \in RepoNames :
              Cardinality(CallsOf("commitAll", r)) = IF r \in DirtyAtStart THEN 1 ELSE 0
        /\ \A k \in 1..Len(calls) :
              /\ calls[k].fn = "commitAll"
              /\ calls[k].message = argv.message
        /\ \A i \in 1..Len(task) :
              task[i].pc = "done" =>
                 Commit(NewSha(task[i].repo), <<HeadSha(repo0[task[i].repo])>>, argv.message)
                     \in repo[task[i].repo].odb
        /\ CommitScenario =>
              /\ hpc # "thrown"
              /\ <<calls[1].repo, calls[2].repo>> = <<"B", "C">>
              /\ Len(calls) = 2
              /\ hpc = "returned" =>
                    /\ pall.state = "fulfilled"
                    /\ pall.values = <<NewSha("B"), NewSha("C")>>
                    /\ out = <<[count |-> 2, text |-> "repos added new commit", message |-> "wip"]>>

\* the scenario has run to its end
C4_Witness == CommitScenario /\ hpc = "returned" /\ settled = <<2, 1>>

\* the current branch and the upstream default branch each have a commit
\* the other lacks
Diverged(rp) ==
    /\ HeadSha(rp) # NoSha
    /\ HeadSha(rp) \notin history(rp.odb \cup RemoteObjects, rp.upstream)
    /\ rp.upstream \notin history(rp.odb, HeadSha(rp))

\* C5 (as claimed): a sync of a repository whose branch has diverged from
\* the upstream default branch ends in failure, with DivergedHistoryError
\* unless an earlier step failed, and leaves the branches where they were.
C5_DivergedSyncFails ==
    \A i \in 1..Len(task) :
        (verb = "sync" /\ IsSettled(i) /\ Diverged(repo0[task[i].repo])) =>
            /\ task[i].pc = "failed"
            /\ task[i].err \in {"DivergedHistoryError", "FetchFailed"}
            /\ repo[task[i].repo].branches = repo0[task[i].repo].branches

\* C6 (as claimed): isAheadOfMaster returns true iff HEAD's commit differs
\* from master's and master's commit is in HEAD's history.
C6_AheadIffMasterReachable ==
    (api.fn = "isAheadOfMaster" /\ api.ret.err = Empty) =>
        api.ret.value =
            (/\ HeadSha(repo[api.repo]) # repo[api.repo].branches["master"]
             /\ repo[api.repo].branches["master"]
                    \in history(repo[api.repo].odb, HeadSha(repo[api.repo])))

\* C7 (as claimed): commitAll on a repository without pending changes fails
\* with NothingToCommitError and creates no commit.
C7_CleanCommitFails ==
    (api.fn = "commitAll" /\ getStatus(repo0[api.repo]) = 0) =>
        /\ api.ret.err = "NothingToCommitError"
        /\ repo[api.repo].branches = repo0[api.repo].branches
        /\ repo[api.repo].odb = repo0[api.repo].odb

\* C8: the status groups partition the filtered set: every repository of it
\* is in exactly one of clean and dirty, and in clean iff its status query
\* reported no pending file; so the sync targets and the commit targets of
\* one observation are disjoint and together cover the filtered set.
C8_StatusGroupsPartition ==
    (verb \in {"sync", "commit"} /\ hpc # "idle") =>
        /\ Range(groups.clean) \cup Range(groups.dirty) = Range(repos)
        /\ Range(groups.clean) \cap Range(groups.dirty) = {}
        /\ Len(groups.clean) + Len(groups.dirty) = Len(repos)
        /\ \A r \in Range(repos) : (r \in Range(groups.clean)) <=> (getStatus(repo0[r]) = 0)
        /\ Range(syncTargets(groups)) \cap Range(commitTargets(groups)) = {}
        /\ Range(syncTargets(groups)) \cup Range(commitTargets(groups)) = Range(repos)

\* a classification with both groups inhabited
C8_Witness ==
    /\ verb \in {"sync", "commit"}
    /\ hpc # "idle"
    /\ Len(repos) = 3
    /\ groups.clean # <<>>
    /\ groups.dirty # <<>>

\* C9: the outcome sequence of a batch is in input order whatever the order
\* of completion: slot i holds the result of the call on input repository
\* i once that call has succeeded, and nothing before.
C9_OutcomesInInputOrder ==
    hpc # "idle" =>
        /\ Len(pall.values) = Len(calls)
        /\ \A i \in 1..Len(task) :
              pall.values[i] =
                 IF task[i].pc # "done" THEN Empty
                 ELSE IF verb = "commit" THEN NewSha(calls[i].repo)
                 ELSE Undefined

\* a commit batch of three fulfilled after its calls completed in reverse
C9_Witness ==
    /\ verb = "commit"
    /\ pall.state = "fulfilled"
    /\ settled = <<3, 2, 1>>

\* C10 (as claimed): when every call of a batch has settled and at least
\* one failed, the handler has written a summary line that counts the
\* repositories that succeeded.
C10_SummaryAfterFailure ==
    (hpc # "idle" /\ AllSettled /\ SomeFailed) =>
        /\ Len(out) = 1
        /\ out[1].count = Cardinality({i \in 1..Len(task) : task[i].pc = "done"})

\* C11: a batch over no repository (no clean repository for sync, no dirty
\* one for commit) makes no backend call, touches no repository, and the
\* handler gets past its await at once with an empty outcome sequence and
\* writes its summary with count 0.
C11_EmptyBatch ==
    (verb \in {"sync", "commit"} /\ hpc # "idle" /\ Targeted = {}) =>
        /\ calls = <<>>
        /\ task = <<>>
        /\ pall.state = "fulfilled"
        /\ pall.values = <<>>
        /\ hpc = "returned"
        /\ Len(out) = 1 /\ out[1].count = 0
        /\ repo = repo0

\* a sync over a filtered set that is not empty but has no clean repository
C11_Witness ==
    /\ verb = "sync"
    /\ hpc = "returned"
    /\ Filtered # <<>>
    /\ CleanAtStart = {}
    /\ calls = <<>>

\* the repositories of the filtered set that were on branch b
OnBranch(b) == {r \in Range(Filtered) : repo0[r].cur = b}

CountLines(b) == {k \in 1..Len(out) : out[k].text = "repos on branch" /\ out[k].branch = b}

RepoLines(r) == {k \in 1..Len(out) : out[k].text = "repo" /\ out[k].path = relPath(r)}

\* C12: the branch verb reports, for every branch some repository of the
\* filtered set is on, one line with the number of repositories on it, and
\* lists by path exactly the repositories that are on a branch other than
\* master, each once and after the line of its branch; over
\* {A on feature, B on master} it reports one repository on each branch and
\* lists A but not B.
C12_BranchReport ==
    (verb = "branch" /\ hpc = "returned") =>
        /\ \A b \in BranchNames :
              /\ Cardinality(CountLines(b)) = IF OnBranch(b) = {} THEN 0 ELSE 1
              /\ \A k \in CountLines(b) : out[k].count = Cardinality(OnBranch(b))
        /\ \A r \in RepoNames :
              /\ Cardinality(RepoLines(r)) =
                    IF r \in Range(Filtered) /\ repo0[r].cur # "master" THEN 1 ELSE 0
              /\ \A k \in RepoLines(r) : \E c \in CountLines(repo0[r].cur) : c < k
        /\ (argv.exclude = {"C"} /\ repo0["A"].cur = "feature" /\ repo0["B"].cur = "master") =>
              out = << [text |-> "repos on branch", count |-> 1, branch |-> "feature"],
                       [text |-> "repo", path |-> "en/A"],
                       [text |-> "repos on branch", count |-> 1, branch |-> "master"] >>

\* the report over {A on feature, B on master}
C12_Witness ==
    /\ verb = "branch"
    /\ hpc = "returned"
    /\ argv.exclude = {"C"}
    /\ repo0["A"].cur = "feature"
    /\ repo0["B"].cur = "master"
    /\ Len(out) = 3

\* C13: checkoutNewBranch on a repository with a HEAD commit and no branch
\* of the given name creates that branch at the HEAD commit and then checks
\* it out, leaving every other branch alone; when a branch of that name
\* exists the call fails with the branch-exists error and neither moves that
\* branch nor switches the checked-out branch.
C13_CheckoutNewBranch ==
    api.fn = "checkoutNewBranch" =>
        LET old  == repo0[api.repo]
            new  == repo[api.repo]
            name == api.args[1]
        IN  /\ old.branches[name] # NoSha =>
                  /\ api.ret.err = "BranchExists"
                  /\ new = old
            /\ (old.branches[name] = NoSha /\ HeadSha(old) # NoSha) =>
                  /\ api.ret.err = Empty
                  /\ new.branches[name] = HeadSha(old)
                  /\ new.cur = name
                  /\ \A b \in BranchNames \ {name} : new.branches[b] = old.branches[b]
                  /\ new.odb = old.odb
            /\ api.ret.err # Empty => new = old

\* the call refused on a branch that exists at another commit than HEAD
C13_Witness ==
    /\ api.fn = "checkoutNewBranch"
    /\ api.ret.err = "BranchExists"
    /\ repo0[api.repo].branches[api.args[1]] # HeadSha(repo0[api.repo])
    /\ repo[api.repo] = repo0[api.repo]

\* C14: push asks the named remote (origin when none is named) for one
\* update, of refs/heads/<branch> from the local refs/heads/<branch>, and
\* the request is a forced one iff force was passed as true; so a
\* successful push leaves the remote branch at the local branch's commit, a
\* push with force true is never rejected, and a push without force that is
\* not a fast-forward is rejected and changes nothing.
C14_Push ==
    (api.fn = "push" /\ api.ret.err # "NoRemote") =>
        LET old    == repo0[api.repo]
            new    == repo[api.repo]
            b      == api.args.branch
            force  == api.args.force = <<TRUE>>
            req    == api.ret.request
            spec   == req.refspecs[1]
            nonFF  == /\ RemoteHead(old, b) # NoSha
                      /\ RemoteHead(old, b) \notin history(old.odb, old.branches[b])
        IN  /\ req.remote = IF api.args.remote = <<>> THEN "origin" ELSE api.args.remote[1]
            /\ Len(req.refspecs) = 1
            /\ (spec[1] = "+") <=> force
            /\ SubSeq(spec, Len(spec) - 4, Len(spec)) = <<"refs/heads/", b, ":", "refs/heads/", b>>
            /\ Len(spec) = IF force THEN 6 ELSE 5
            /\ api.ret.err = Empty =>
                  /\ RemoteHead(new, b) = old.branches[b]
                  /\ \A o \in BranchNames \ {b} : RemoteHead(new, o) = RemoteHead(old, o)
                  /\ new.branches = old.branches
                  /\ nonFF => force
            /\ (old.branches[b] # NoSha /\ force) => api.ret.err = Empty
            /\ (old.branches[b] # NoSha /\ ~force /\ nonFF) =>
                  /\ api.ret.err = "PushRejected"
                  /\ new = old

\* a push with force omitted, to the default remote, of a branch that has
\* diverged from the remote's: rejected
C14_Witness ==
    /\ api.fn = "push"
    /\ api.args.force = <<>>
    /\ api.args.remote = <<>>
    /\ api.ret.request.remote = "origin"
    /\ api.ret.err = "PushRejected"

\* C15 (as claimed): the handler has neither returned nor thrown while a
\* call it dispatched is still running.
C15_HandlerWaitsForAll ==
    hpc \in {"returned", "thrown"} => AllSettled

\* C16: in sync no branch moves before the fetch has completed; a call whose
\* reading of the current branch or whose fetch fails has failed without
\* moving a branch; the merge starts with origin/master fetched; and a sync
\* that succeeded left its branch where it was or moved it to the upstream
\* default commit, all other branches untouched. No commit with two parents
\* ever exists.
C16_SyncFetchThenFastForward ==
    verb = "sync" =>
        \A i \in 1..Len(task) :
            LET old == repo0[task[i].repo]
                new == repo[task[i].repo]
            IN  /\ task[i].pc \in {"getCurrentBranch", "fetchAll"} => new = old
                /\ task[i].pc = "mergeBranches" =>
                      /\ new.tracking = old.upstream
                      /\ new.branches = old.branches
                /\ task[i].pc = "failed" =>
                      /\ task[i].err \in {"UnbornHead", "FetchFailed"}
                      /\ new = old
                /\ task[i].pc = "done" =>
                      /\ new.tracking = old.upstream
                      /\ new.cur = old.cur
                      /\ new.branches[old.cur] \in {HeadSha(old), old.upstream}
                      /\ \A b \in BranchNames \ {old.cur} : new.branches[b] = old.branches[b]
                /\ \A c \in new.odb : Len(c.parents) <= 1

\* a sync that fast-forwarded its branch, and one that had diverged and was
\* left alone
C16_Witness ==
    /\ verb = "sync"
    /\ \E i \in 1..Len(task) :
          /\ task[i].pc = "done"
          /\ HeadSha(repo0[task[i].repo]) = "c0"
          /\ HeadSha(repo[task[i].repo]) = "u1"
    /\ \E i \in 1..Len(task) :
          /\ task[i].pc = "done"
          /\ Diverged(repo0[task[i].repo])

AtMostOncePerRepo ==
    \A r \in RepoNames : Cardinality({k \in 1..Len(calls) : calls[k].repo = r}) <= 1

NoReinvocation ==
    hpc # "idle" =>
        /\ calls' = calls
        /\ Len(task') = Len(task)
        /\ \A i \in 1..Len(task) : IsSettled(i) => task'[i] = task[i]

\* C17: within one invocation of sync or commit the backend operation is
\* invoked at most once per repository; once the batch is dispatched no
\* further invocation is made, and a call that has settled (failed or not)
\* is never started again.
C17_NoRetry == []AtMostOncePerRepo /\ [][NoReinvocation]_vars

\* a batch of two or more whose calls have all settled, one of them failed
C17_Witness ==
    /\ Len(calls) >= 2
    /\ AllSettled
    /\ SomeFailed

\* C18: hasBranch does not fail on a missing branch: it returns true iff the
\* branch exists and changes nothing. deleteBranch returns true only when
\* the branch existed, was not the checked-out one and is gone afterwards;
\* on a branch that does not exist or is checked out it fails and deletes
\* nothing.
C18_HasAndDeleteBranch ==
    /\ api.fn = "hasBranch" =>
          /\ api.ret.err = Empty
          /\ api.ret.value = (repo0[api.repo].branches[api.args[1]] # NoSha)
          /\ repo[api.repo] = repo0[api.repo]
    /\ api.fn = "deleteBranch" =>
          LET old == repo0[api.repo]
              new == repo[api.repo]
              b   == api.args[1]
          IN  /\ api.ret.value =>
                    /\ api.ret.err = Empty
                    /\ old.branches[b] # NoSha
                    /\ b # old.cur
                    /\ new.branches[b] = NoSha
                    /\ \A o \in BranchNames \ {b} : new.branches[o] = old.branches[o]
                    /\ new.cur = old.cur
              /\ (old.branches[b] = NoSha \/ b = old.cur) =>
                    /\ ~api.ret.value
                    /\ api.ret.err # Empty
                    /\ new = old

\* hasBranch answering false for a branch that does not exist in a
\* repository that has commits
C18_Witness ==
    /\ api.fn = "hasBranch"
    /\ HeadSha(repo0[api.repo]) # NoSha
    /\ repo0[api.repo].branches[api.args[1]] = NoSha
    /\ api.ret.err = Empty
    /\ api.ret.value = FALSE

\* C19: commitAll stages every working-tree change and writes the index
\* before it resolves HEAD, and resolves HEAD before it creates the commit;
\* the commit it creates has exactly one parent, the HEAD commit of that
\* call, and becomes HEAD. On a repository without commits the call fails at
\* the resolution of HEAD: no commit is created and no branch moves, but the
\* index then holds all the changes staged, so the repository is not as it
\* was.
C19_CommitAllSteps ==
    /\ verb = "commit" =>
          \A i \in 1..Len(task) :
              LET r   == task[i].repo
                  old == repo0[r]
                  new == repo[r]
                  written == /\ new.unstaged = 0
                             /\ new.staged = old.staged + old.unstaged
                             /\ new.odb = old.odb
                             /\ new.branches = old.branches
              IN  /\ task[i].pc = "stageAll" => new = old
                  /\ task[i].pc \in {"resolveHead", "createCommit"} => written
                  /\ task[i].pc = "createCommit" => task[i].loc = HeadSha(old)
                  /\ task[i].pc = "done" =>
                        /\ HeadSha(old) # NoSha
                        /\ new.odb = old.odb \cup {Commit(NewSha(r), <<HeadSha(old)>>, calls[i].message)}
                        /\ HeadSha(new) = NewSha(r)
                        /\ getStatus(new) = 0
                  /\ task[i].pc = "failed" =>
                        /\ task[i].err = "UnbornHead"
                        /\ HeadSha(old) = NoSha
                        /\ written
                        /\ new # old
    /\ (api.fn = "commitAll" /\ HeadSha(repo0[api.repo]) = NoSha) =>
          /\ api.ret.err = "UnbornHead"
          /\ repo[api.repo].odb = repo0[api.repo].odb
          /\ repo[api.repo].branches = repo0[api.repo].branches
          /\ repo[api.repo].staged = repo0[api.repo].unstaged
          /\ repo[api.repo].unstaged = 0

\* a commitAll of the batch that failed on a repository without commits and
\* left its changes staged
C19_Witness ==
    /\ verb = "commit"
    /\ \E i \in 1..Len(task) :
          /\ task[i].pc = "failed"
          /\ repo0[task[i].repo].staged = 0
          /\ repo[task[i].repo].staged > 0
          /\ repo[task[i].repo].odb = {}

====
